---------------------------- MODULE Spec2Model ----------------------------
(***************************************************************************)
(* PerfPro .3dp decoder (converter.js, parse3dp).                          *)
(*                                                                         *)
(* The input file is a flat byte sequence `bytes`.  JavaScript indexes it  *)
(* from 0, TLA+ sequences from 1: At(b, off) is bytes[off].  parse3dp is   *)
(* synchronous; it is modelled one loop iteration per step so that the     *)
(* loop's locals can be observed between records.  The locals live in the  *)
(* record `loc`, whose fields carry the names of the source's variables.   *)
(***************************************************************************)
EXTENDS Integers, Sequences, FiniteSets, TLC

\* ---------------------------------------------------------------- constants

HEADER_NAME_OFFSET == 16
RECORD_START == 272
RECORD_SIZE == 48
WATTS_OFFSET == 4
CADENCE_OFFSET == 38
HR_OFFSET == 46
DIST_KM_OFFSET == 40
TIMESTAMP_MS_OFFSET == 32
MAX_DELTA_MS == 5000
CADENCE_DEFAULT == 90
HR_DEFAULT == 50

\* SENSOR_THRESHOLD = 0.05 as the fraction SENSOR_THRESHOLD_NUM / SENSOR_THRESHOLD_DEN.
SENSOR_THRESHOLD_NUM == 1
SENSOR_THRESHOLD_DEN == 20

\* JavaScript's null (every real reading, second and distance is >= 0).
Null == -1

\* JavaScript's Infinity, above every finite distance of the model.
Infinity == 2147483647

\* ------------------------------------------------------------------- bounds

\* Slots of a buffer of the general family.
MaxSlots == 3
\* Records of a buffer of the sensor family.
MaxSensorSlots == 50
\* Records of a sensor-family buffer that carry a real sensor reading.
MaxReal == 3

\* --------------------------------------------------------------- byte reads

\* bytes[off] of a Uint8Array.
At(b, off) == b[off + 1]

\* (b0 | b1 << 8 | b2 << 16 | b3 << 24) >>> 0.  The four operands occupy
\* disjoint bits, so | is +; >>> 0 reinterprets the int32 as unsigned, which
\* is the sum itself.  The model's timestamps keep b3 < 128 (below 2^31).
readUint32LE(b, off) ==
    At(b, off) + At(b, off + 1) * 256 + At(b, off + 2) * 65536
    + At(b, off + 3) * 16777216

\* DataView.getFloat32(0, true): the IEEE 754 binary32 fields of the four
\* little-endian bytes.  cls is "nan", "inf" or "fin"; for "fin" the value is
\* (-1)^neg * (e = 0 ? m : 2^23 + m) * 2^(max(e,1) - 150).
readFloat32LE(b, off) ==
    LET b0 == At(b, off)
        b1 == At(b, off + 1)
        b2 == At(b, off + 2)
        b3 == At(b, off + 3)
        e  == (b3 % 128) * 2 + (b2 \div 128)
        m  == (b2 % 128) * 65536 + b1 * 256 + b0
    IN  [cls |-> IF e = 255 THEN (IF m = 0 THEN "inf" ELSE "nan") ELSE "fin",
         neg |-> b3 >= 128,
         e   |-> e,
         m   |-> m]

\* distKm > 0 on a decoded float32: NaN compares false, -0 and +0 are not > 0.
FloatGtZero(f) ==
    /\ f.cls # "nan"
    /\ ~f.neg
    /\ (f.cls = "inf" \/ f.e # 0 \/ f.m # 0)

Pow2(n) == IF n <= 0 THEN 1 ELSE 2 ^ n

\* distKm * 1000 for a positive float32, in units of 1/1024 m.  The double
\* product of a 24-bit significand and 1000 is exact.  The integer below is
\* that product for the distances the model draws: multiples of 1/1024 km
\* below 2048 km (117 <= e <= 137, low significand bits zero); +Infinity *
\* 1000 is Infinity.
KmToMeters(f) ==
    IF f.cls = "inf" THEN Infinity
    ELSE IF f.e = 0 /\ f.m = 0 THEN 0
    ELSE ((8388608 + f.m) \div Pow2(140 - f.e)) * 1000

\* Variant: the third signature byte is not tested.
isDataRecord_two(b, offset) ==
    /\ At(b, offset + 1) = 0
    /\ At(b, offset + 2) = 1

isDataRecord(b, offset) ==
    /\ At(b, offset + 1) = 0
    /\ At(b, offset + 2) = 1
    /\ At(b, offset + 3) = 0

\* --------------------------------------------------------------- arithmetic

RECURSIVE SumSeq(_)
SumSeq(s) == IF s = <<>> THEN 0 ELSE Head(s) + SumSeq(Tail(s))

\* Math.round(n / d) for integers n >= 0, d > 0: the nearest integer, a half
\* rounded up.  n / d is within d's reach of no half it does not equal, so the
\* double quotient rounds as the exact one.
\* Variant: the quotient truncated.
RoundDiv_floor(n, d) == n \div d

RoundDiv(n, d) == (2 * n + d) \div (2 * d)

\* Variant: the sum is not divided by the length.
avgInt_sum(arr) == SumSeq(arr)

\* Math.round(arr.reduce((s, v) => s + v, 0) / arr.length)
avgInt(arr) == RoundDiv(SumSeq(arr), Len(arr))

\* Math.floor(ms / 1000) for ms >= 0.
SecOf(ms) == ms \div 1000

\* ------------------------------------------------------------------ JS Map
\* A Map is its entries in insertion order: a sequence of [k, v].

MapHas(m, k) == \E j \in 1..Len(m) : m[j].k = k

MapGet(m, k) == m[CHOOSE j \in 1..Len(m) : m[j].k = k].v

MapSet(m, k, v) ==
    IF MapHas(m, k)
    THEN [j \in 1..Len(m) |-> IF m[j].k = k THEN [k |-> k, v |-> v] ELSE m[j]]
    ELSE Append(m, [k |-> k, v |-> v])

\* Array.from(m.keys())
MapKeys(m) == [j \in 1..Len(m) |-> m[j].k]

\* Variant: the reading replaces the bucket instead of joining it.
MapPush_replace(m, k, x) == MapSet(m, k, <<x>>)

\* m.get(k).push(x), after `if (!m.has(k)) m.set(k, [])`
MapPush(m, k, x) ==
    MapSet(m, k, Append(IF MapHas(m, k) THEN MapGet(m, k) ELSE <<>>, x))

\* arr.sort((a, b) => a - b)
RECURSIVE Insert(_, _)
Insert(x, s) ==
    IF s = <<>> THEN <<x>>
    ELSE IF x < Head(s) THEN <<x>> \o s
    ELSE <<Head(s)>> \o Insert(x, Tail(s))

RECURSIVE SortAsc(_)
SortAsc(s) == IF s = <<>> THEN <<>> ELSE Insert(Head(s), SortAsc(Tail(s)))

\* ------------------------------------------------------------------ parse3dp

VARIABLES
    bytes,        \* new Uint8Array(arrayBuffer): the file
    pc,           \* "start", "scan", "done" (parse3dp returned), "error"
                  \* (parse3dp threw), "built" or "buildError" (buildTcx)
    loc,          \* the locals of parse3dp
    trackpoints,  \* the returned workout's trackpoints
    stats,        \* the returned workout's stats
    athleteName,  \* the returned workout's athleteName, as code points
    error,        \* the message of the Error thrown, "" if none
    startTime,    \* the start instant handed to buildTcx
    tcx,          \* the document returned by buildTcx
    tcxError,     \* the exception raised by buildTcx, "" if none
    errorMsg,     \* errorMsg.textContent, as the pieces of the template
    section,      \* the section of the page that is not hidden, or "none"
    currentFile,  \* app.js currentFile: a file, or NoFile for null
    currentOutput,\* app.js currentOutput, or NoOutput for null
    convertBtn,   \* the Convert button: disabled, textContent
    reader,       \* the FileReader of the last click: loading, and its file
    uncaught      \* the exception that left reader.onload uncaught, "" if none

vars == <<bytes, pc, loc, trackpoints, stats, athleteName, error,
          startTime, tcx, tcxError, errorMsg, section,
          currentFile, currentOutput, convertBtn, reader, uncaught>>

\* The state of the page outside the decoder and the serializer.
pageVars == <<currentFile, currentOutput, convertBtn, reader, uncaught>>

\* What a step of parse3dp leaves alone outside the decoder.
outVars == <<startTime, tcx, tcxError, errorMsg, section, pageVars>>

\* ---------------------------------------------------------------------------
\* Text.  A string is the sequence of its code points.

REPLACEMENT_CHAR == 65533

\* 'Unknown'
UNKNOWN == <<85, 110, 107, 110, 111, 119, 110>>

NAME_FIELD_LEN == 64

\* The state of the UTF-8 decoder before a character.
Utf8Start(text, errors) ==
    [text |-> text, errors |-> errors, cp |-> 0, needed |-> 0, seen |-> 0,
     lower |-> 128, upper |-> 191]

\* One byte through the UTF-8 decoder of TextDecoder('utf-8'), not fatal: a
\* malformed sequence gives U+FFFD and decoding goes on; the byte that broke
\* a sequence is decoded again as the start of the next one.
RECURSIVE Utf8Byte(_, _)
Utf8Byte(st, byte) ==
    LET bad == Utf8Start(Append(st.text, REPLACEMENT_CHAR), st.errors + 1)
    IN  IF st.needed = 0
        THEN CASE byte <= 127 -> Utf8Start(Append(st.text, byte), st.errors)
               [] byte \in 194..223 ->
                      [st EXCEPT !.needed = 1, !.cp = byte % 32]
               [] byte \in 224..239 ->
                      [st EXCEPT !.needed = 2, !.cp = byte % 16,
                                 !.lower = IF byte = 224 THEN 160 ELSE 128,
                                 !.upper = IF byte = 237 THEN 159 ELSE 191]
               [] byte \in 240..244 ->
                      [st EXCEPT !.needed = 3, !.cp = byte % 8,
                                 !.lower = IF byte = 240 THEN 144 ELSE 128,
                                 !.upper = IF byte = 244 THEN 143 ELSE 191]
               [] OTHER -> bad
        ELSE IF byte < st.lower \/ byte > st.upper
        THEN Utf8Byte(bad, byte)
        ELSE LET cp == st.cp * 64 + (byte % 64)
             IN  IF st.seen + 1 = st.needed
                 THEN Utf8Start(Append(st.text, cp), st.errors)
                 ELSE [st EXCEPT !.cp = cp, !.seen = st.seen + 1,
                                 !.lower = 128, !.upper = 191]

\* The bytes bs[j..] through the decoder; at the end of the input an
\* unfinished sequence gives one more U+FFFD.
RECURSIVE Utf8Run(_, _, _)
Utf8Run(st, bs, j) ==
    IF j > Len(bs)
    THEN IF st.needed # 0
         THEN Utf8Start(Append(st.text, REPLACEMENT_CHAR), st.errors + 1)
         ELSE st
    ELSE LET next == Utf8Byte(st, bs[j])
         IN  IF next.errors >= 0 THEN Utf8Run(next, bs, j + 1) ELSE next

\* A leading byte order mark EF BB BF is dropped.
StripBOM(bs) ==
    IF Len(bs) >= 3 /\ bs[1] = 239 /\ bs[2] = 187 /\ bs[3] = 191
    THEN SubSeq(bs, 4, Len(bs))
    ELSE bs

\* new TextDecoder('utf-8').decode(bs): the text, and how many malformed
\* sequences were replaced.
Utf8Decode(bs) == Utf8Run(Utf8Start(<<>>, 0), StripBOM(bs), 1)

\* slice.indexOf(0), maxLen when there is none.
RECURSIVE IndexOfZero(_, _)
IndexOfZero(bs, j) ==
    IF j > Len(bs) THEN Len(bs)
    ELSE IF bs[j] = 0 THEN j - 1
    ELSE IndexOfZero(bs, j + 1)

readNullTermString(b, offset, maxLen) ==
    LET slice == SubSeq(b, offset + 1, offset + maxLen)
        end   == IndexOfZero(slice, 1)
    IN  Utf8Decode(SubSeq(slice, 1, end)).text

\* readNullTermString(bytes, HEADER_NAME_OFFSET, 64) || 'Unknown'
AthleteName(b) ==
    LET name == readNullTermString(b, HEADER_NAME_OFFSET, NAME_FIELD_LEN)
    IN  IF name = <<>> THEN UNKNOWN ELSE name

\* ---------------------------------------------------------------------------
\* Dates.  A Date holds a time value in milliseconds since the epoch, kept
\* here as day number, second of the day and millisecond of the second (the
\* time value itself exceeds the integers of the checker).  A time value
\* beyond +-8.64e15 ms (100,000,000 days) makes an Invalid Date.

SECONDS_PER_DAY == 86400
MAX_DAY == 100000000

InvalidDate == [valid |-> FALSE, day |-> 0, sod |-> 0, ms |-> 0]

\* No start instant was picked yet.
NotPicked == InvalidDate

\* The instant of day d, second s of the day, millisecond f of the second.
DateOf(d, s, f) == [valid |-> TRUE, day |-> d, sod |-> s, ms |-> f]

\* Variant: the last instant of the range is left out.
InDateRange_open(d, s, f) ==
    /\ d >= 0 - MAX_DAY
    /\ d < MAX_DAY

\* TimeClip: is the time value within the range of Date?
InDateRange(d, s, f) ==
    /\ d >= 0 - MAX_DAY
    /\ d < MAX_DAY \/ (d = MAX_DAY /\ s = 0 /\ f = 0)

\* new Date(startTime.getTime() + sec * 1000)
NewDateAfter(start, sec) ==
    LET total == start.sod + sec
        d     == start.day + (total \div SECONDS_PER_DAY)
        s     == total % SECONDS_PER_DAY
    IN  IF start.valid /\ InDateRange(d, s, start.ms)
        THEN DateOf(d, s, start.ms)
        ELSE InvalidDate

\* The text of a timestamp: the calendar date of the day number (a
\* bijection, kept as the day number), hours, minutes and seconds.
IsoText(d, s) ==
    [date |-> d,
     hh   |-> s \div 3600,
     mm   |-> (s % 3600) \div 60,
     ss   |-> s % 60]

RANGE_ERROR == "RangeError: Invalid time value"

\* date.toISOString() raises a RangeError on an Invalid Date.
isoTimestampThrows(date) == ~date.valid

\* Variant: the milliseconds round to the nearest second.
isoTimestamp_rounded(date) ==
    LET up == NewDateAfter(date, 1)
    IN  IF date.ms >= 500 /\ up.valid
        THEN IsoText(up.day, up.sod)
        ELSE IsoText(date.day, date.sod)

\* date.toISOString().replace(/\.\d{3}Z$/, 'Z'): the ".sss" of the
\* milliseconds is cut off.
isoTimestamp(date) == IsoText(date.day, date.sod)

\* x.toFixed(2) of a distance x >= 0 given in units of 1/1024 m: the
\* nearest multiple of 0.01, the larger one on a tie; Infinity gives the
\* text "Infinity".  (A finite x >= 1e21 would give an exponent form; the
\* model draws none.)
toFixed2(x) ==
    IF x = Infinity
    THEN [kind |-> "Infinity", int |-> 0, frac |-> 0]
    ELSE LET cents == RoundDiv((x % 1024) * 100, 1024)
         IN  [kind |-> "fixed",
              int  |-> (x \div 1024) + (cents \div 100),
              frac |-> cents % 100]

\* An optional element: one value when v is not null, nothing otherwise.
Optional(v) == IF v # Null THEN <<v>> ELSE <<>>

\* One <Trackpoint> element of buildTcx.
TcxTrackpoint(tp, start) ==
    [time     |-> isoTimestamp(NewDateAfter(start, tp.sec)),
     hr       |-> Optional(tp.hr),
     distance |-> IF tp.distMeters # Null THEN <<toFixed2(tp.distMeters)>> ELSE <<>>,
     watts    |-> tp.watts,
     cadence  |-> Optional(tp.cadence)]

\* Does buildTcx raise?  Only isoTimestamp can: on a trackpoint's instant
\* or on the start instant.
buildTcxThrows(tps, start) ==
    \/ \E j \in 1..Len(tps) : isoTimestampThrows(NewDateAfter(start, tps[j].sec))
    \/ isoTimestampThrows(start)

\* stats.totalDistMeters.toFixed(2)
LapDistance(tps, st) == toFixed2(st.totalDistMeters)

\* The document of buildTcx: one activity with its Id and one lap.
buildTcx(tps, st, start) ==
    [id   |-> isoTimestamp(start),
     laps |-> << [startTime        |-> isoTimestamp(start),
                  totalTimeSeconds |-> st.durationSec,
                  distanceMeters   |-> LapDistance(tps, st),
                  calories         |-> 0,
                  track            |-> [j \in 1..Len(tps) |-> TcxTrackpoint(tps[j], start)],
                  avgWatts         |-> st.avgWatts,
                  maxWatts         |-> st.maxWatts] >>]

\* No document was built.
NoTcx == [id |-> IsoText(0, 0), laps |-> <<>>]

\* The start instants handed to buildTcx: an ordinary one, one late in the
\* last second of a day, one before the epoch, and the last two seconds of
\* the range of Date.
StartInstants ==
    { DateOf(20762, 18000, 0),
      DateOf(20762, SECONDS_PER_DAY - 1, 999),
      DateOf(0 - 1, SECONDS_PER_DAY - 1, 500),
      DateOf(MAX_DAY - 1, SECONDS_PER_DAY - 1, 0),
      DateOf(MAX_DAY, 0, 0) }

\* showError(`Parse error: ${err.message}`): the text shown for an error
\* raised by parse3dp, as the pieces of the template.
ParseErrorText_verbatim(msg) == <<msg>>

ParseErrorText(msg) == <<"Parse error: ", msg>>

\* The messages of the two errors (the second with its dash in ASCII).
ERR_TOO_SMALL == "File is too small to be a valid .3dp file."
ERR_NO_DATA == "No valid data records found - this may not be a .3dp file."

\* Variant: only the header is required.
TooSmall_headerOnly(b) == Len(b) < RECORD_START

\* bytes.length < RECORD_START + RECORD_SIZE
TooSmall(b) == Len(b) < RECORD_START + RECORD_SIZE

\* Variant: a slot that is only begun counts as well (ceil).
TotalSlots_begun(b) == (Len(b) - RECORD_START + RECORD_SIZE - 1) \div RECORD_SIZE

\* Math.floor((bytes.length - RECORD_START) / RECORD_SIZE)
TotalSlots(b) == (Len(b) - RECORD_START) \div RECORD_SIZE

\* Variant: the previous-timestamp cursor starts at 0.
InitLocals_cursorZero(b) ==
    [totalSlots      |-> IF TooSmall(b) THEN 0 ELSE TotalSlots(b),
     i               |-> 0,
     wattsBySecond   |-> <<>>,
     cadenceBySecond |-> <<>>,
     hrBySecond      |-> <<>>,
     distBySecond    |-> <<>>,
     validCount      |-> 0,
     realCadence     |-> 0,
     realHR          |-> 0,
     prevMs          |-> 0,
     lastValidMs     |-> 0]

\* The locals as declared, before the loop.
InitLocals(b) ==
    [totalSlots      |-> IF TooSmall(b) THEN 0 ELSE TotalSlots(b),
     i               |-> 0,
     wattsBySecond   |-> <<>>,
     cadenceBySecond |-> <<>>,
     hrBySecond      |-> <<>>,
     distBySecond    |-> <<>>,
     validCount      |-> 0,
     realCadence     |-> 0,
     realHR          |-> 0,
     prevMs          |-> -1,
     lastValidMs     |-> 0]

\* RECORD_START + i * RECORD_SIZE
OffsetOf(i) == RECORD_START + i * RECORD_SIZE

\* Variant: the gap test also applies to the first record.
IsCorruptSentinel_noFirst(prevMs, ms) == (ms - prevMs) > MAX_DELTA_MS

\* Variant: a timestamp below the previous one is rejected as well.
IsCorruptSentinel_orBackwards(prevMs, ms) ==
    prevMs # -1 /\ ((ms - prevMs) > MAX_DELTA_MS \/ ms < prevMs)

\* prevMs !== -1 && (ms - prevMs) > MAX_DELTA_MS
IsCorruptSentinel(prevMs, ms) == prevMs # -1 /\ (ms - prevMs) > MAX_DELTA_MS

\* cadence !== CADENCE_DEFAULT && cadence !== 0
IsRealCadence(cadence) == cadence # CADENCE_DEFAULT /\ cadence # 0

\* hr !== HR_DEFAULT && hr !== 0
IsRealHR(hr) == hr # HR_DEFAULT /\ hr # 0

\* Variant: a zero reading is stored too (distKm >= 0).
StoreDist_nonNegative(m, sec, distKm) ==
    IF FloatGtZero(distKm) \/ (distKm.cls = "fin" /\ distKm.e = 0 /\ distKm.m = 0)
    THEN MapSet(m, sec, distKm) ELSE m

\* if (distKm > 0) distBySecond.set(sec, distKm)
StoreDist(m, sec, distKm) == IF FloatGtZero(distKm) THEN MapSet(m, sec, distKm) ELSE m

\* The body of the loop for an accepted record (prevMs = ms onwards).
AcceptRecord(l, b, offset, ms) ==
    LET watts   == At(b, offset + WATTS_OFFSET)
        cadence == At(b, offset + CADENCE_OFFSET)
        hr      == At(b, offset + HR_OFFSET)
        distKm  == readFloat32LE(b, offset + DIST_KM_OFFSET)
        sec     == SecOf(ms)
    IN  [l EXCEPT
            !.i               = l.i + 1,
            !.prevMs          = ms,
            !.lastValidMs     = ms,
            !.validCount      = l.validCount + 1,
            !.realCadence     = IF IsRealCadence(cadence) THEN @ + 1 ELSE @,
            !.realHR          = IF IsRealHR(hr) THEN @ + 1 ELSE @,
            !.wattsBySecond   = MapPush(@, sec, watts),
            !.cadenceBySecond = MapPush(@, sec, cadence),
            !.hrBySecond      = MapPush(@, sec, hr),
            !.distBySecond    = StoreDist(@, sec, distKm)]

\* `continue`: the loop's i++ and nothing else.
\* Variant: a skipped slot forgets the previous timestamp.
SkipSlot_forgetsCursor(l) == [l EXCEPT !.i = l.i + 1, !.prevMs = -1]

SkipSlot(l) == [l EXCEPT !.i = l.i + 1]

\* Variant: the previous-timestamp cursor moves before the gap test.
ScanSlot_cursorMoves(l, b) ==
    LET offset == OffsetOf(l.i)
        ms     == readUint32LE(b, offset + TIMESTAMP_MS_OFFSET)
    IN  IF ~isDataRecord(b, offset) THEN SkipSlot(l)
        ELSE IF IsCorruptSentinel(l.prevMs, ms) THEN [SkipSlot(l) EXCEPT !.prevMs = ms]
        ELSE AcceptRecord(l, b, offset, ms)

\* One iteration of `for (let i = 0; i < totalSlots; i++)`.
ScanSlot(l, b) ==
    LET offset == OffsetOf(l.i)
        ms     == readUint32LE(b, offset + TIMESTAMP_MS_OFFSET)
    IN  IF ~isDataRecord(b, offset) THEN SkipSlot(l)
        ELSE IF IsCorruptSentinel(l.prevMs, ms) THEN SkipSlot(l)
        ELSE AcceptRecord(l, b, offset, ms)

\* (real / validCount) > SENSOR_THRESHOLD.  real / validCount differs from
\* 1/20 by at least 1 / (20 * validCount) unless it equals it, far more than a
\* double's resolution, and the double nearest 1/20 is the literal 0.05: the
\* comparison of doubles is the comparison of the fractions.
\* Variant: the threshold itself counts as a sensor (>=).
HasSensor_atLeast(real, validCount) ==
    real * SENSOR_THRESHOLD_DEN >= validCount * SENSOR_THRESHOLD_NUM

HasSensor(real, validCount) ==
    real * SENSOR_THRESHOLD_DEN > validCount * SENSOR_THRESHOLD_NUM

\* Variant: the keys in insertion order, unsorted.
Seconds_insertionOrder(l) == MapKeys(l.wattsBySecond)

\* Array.from(wattsBySecond.keys()).sort((a, b) => a - b)
Seconds(l) == SortAsc(MapKeys(l.wattsBySecond))

\* Variant: a zero mean is kept.
NullIfZero_kept(c) == c

\* (c !== null && c !== 0) ? c : null
NullIfZero(c) == IF c # Null /\ c # 0 THEN c ELSE Null

\* Variant: the kilometres are not converted (in units of 1/1024 km).
DistMetersOf_notConverted(l, sec) ==
    IF MapHas(l.distBySecond, sec)
    THEN KmToMeters(MapGet(l.distBySecond, sec)) \div 1000
    ELSE Null

\* distBySecond.has(sec) ? distBySecond.get(sec) * 1000 : null
DistMetersOf(l, sec) ==
    IF MapHas(l.distBySecond, sec) THEN KmToMeters(MapGet(l.distBySecond, sec))
    ELSE Null

\* The callback of seconds.map.
TrackpointOf(l, sec, hasCadence, hasHR) ==
    LET w == avgInt(MapGet(l.wattsBySecond, sec))
        c == IF hasCadence THEN avgInt(MapGet(l.cadenceBySecond, sec)) ELSE Null
        h == IF hasHR THEN avgInt(MapGet(l.hrBySecond, sec)) ELSE Null
        d == DistMetersOf(l, sec)
    IN  [sec |-> sec, watts |-> w, cadence |-> NullIfZero(c), hr |-> NullIfZero(h),
         distMeters |-> d]

\* Variant: seconds of zero power are left out.
Trackpoints_powered(l) ==
    LET hasCadence == HasSensor(l.realCadence, l.validCount)
        hasHR      == HasSensor(l.realHR, l.validCount)
        seconds    == SelectSeq(Seconds(l),
                                LAMBDA sec : avgInt(MapGet(l.wattsBySecond, sec)) > 0)
    IN  [j \in 1..Len(seconds) |-> TrackpointOf(l, seconds[j], hasCadence, hasHR)]

\* seconds.map(sec => ...)
Trackpoints(l) ==
    LET hasCadence == HasSensor(l.realCadence, l.validCount)
        hasHR      == HasSensor(l.realHR, l.validCount)
        seconds    == Seconds(l)
    IN  [j \in 1..Len(seconds) |-> TrackpointOf(l, seconds[j], hasCadence, hasHR)]

\* Variant: the zero-power trackpoints are not filtered out.
AllWatts_unfiltered(tps) == [j \in 1..Len(tps) |-> tps[j].watts]

\* trackpoints.map(t => t.watts).filter(w => w > 0)
AllWatts(tps) == SelectSeq([j \in 1..Len(tps) |-> tps[j].watts], LAMBDA w : w > 0)

RECURSIVE MaxSeq(_)
MaxSeq(s) ==
    IF Len(s) = 1 THEN Head(s)
    ELSE LET r == MaxSeq(Tail(s)) IN IF Head(s) > r THEN Head(s) ELSE r

\* Variant: the duration taken from the largest bucket key.
DurationSec_lastKey(l, tps) == tps[Len(tps)].sec

\* Variant: the last timestamp is rounded to the nearest second.
DurationSec_rounded(l, tps) == RoundDiv(l.lastValidMs, 1000)

\* Math.floor(lastValidMs / 1000)
DurationSec(l, tps) == SecOf(l.lastValidMs)

\* Variant: the first trackpoint that has a distance (find, not findLast).
TotalDistMeters_first(tps) ==
    LET has == {j \in 1..Len(tps) : tps[j].distMeters # Null}
    IN  IF has = {} THEN 0
        ELSE tps[CHOOSE j \in has : \A k \in has : j <= k].distMeters

\* trackpoints.findLast(t => t.distMeters !== null), then
\* lastDist ? lastDist.distMeters : 0
TotalDistMeters(tps) ==
    LET has == {j \in 1..Len(tps) : tps[j].distMeters # Null}
    IN  IF has = {} THEN 0
        ELSE tps[CHOOSE j \in has : \A k \in has : k <= j].distMeters

Stats(l, tps) ==
    LET allWatts == AllWatts(tps)
    IN  [durationSec     |-> DurationSec(l, tps),
         avgWatts        |-> IF Len(allWatts) # 0
                             THEN RoundDiv(SumSeq(allWatts), Len(allWatts)) ELSE 0,
         maxWatts        |-> IF Len(allWatts) # 0 THEN MaxSeq(allWatts) ELSE 0,
         hasCadence      |-> HasSensor(l.realCadence, l.validCount),
         hasHR           |-> HasSensor(l.realHR, l.validCount),
         recordCount     |-> l.validCount,
         totalDistMeters |-> TotalDistMeters(tps)]

\* validCount === 0
NoValidData(l) == l.validCount = 0

NoStats ==
    [durationSec |-> 0, avgWatts |-> 0, maxWatts |-> 0, hasCadence |-> FALSE,
     hasHR |-> FALSE, recordCount |-> 0, totalDistMeters |-> 0]

\* ------------------------------------------------------------- input files
\* The files the model parses.  Records are written field by field at the
\* offsets of docs/3dp-format.md; every other byte is 0.

\* The four little-endian bytes of n.
LE32(n) == <<n % 256, (n \div 256) % 256, (n \div 65536) % 256, n \div 16777216>>

\* float32 bit patterns, little-endian.
F32_ZERO == <<0, 0, 0, 0>>
F32_HALF == <<0, 0, 0, 63>>
F32_ONE == <<0, 0, 128, 63>>
F32_TWO == <<0, 0, 0, 64>>
F32_NEG_ONE == <<0, 0, 128, 191>>
F32_NAN == <<0, 0, 192, 127>>
F32_INF == <<0, 0, 128, 127>>

SIGNATURE == <<0, 1, 0>>

\* One 48-byte slot.
MkSlot(marker, sig, watts, ms, cadence, dist, hr) ==
    [o \in 1..RECORD_SIZE |->
        LET off == o - 1
        IN  CASE off = 0 -> marker
              [] off \in 1..3 -> sig[off]
              [] off = WATTS_OFFSET -> watts
              [] off \in TIMESTAMP_MS_OFFSET..(TIMESTAMP_MS_OFFSET + 3) ->
                    LE32(ms)[off - TIMESTAMP_MS_OFFSET + 1]
              [] off \in {CADENCE_OFFSET, CADENCE_OFFSET + 1} -> cadence
              [] off \in DIST_KM_OFFSET..(DIST_KM_OFFSET + 3) ->
                    dist[off - DIST_KM_OFFSET + 1]
              [] off \in {HR_OFFSET, HR_OFFSET + 1} -> hr
              [] OTHER -> 0]

\* A data record.
Rec(watts, ms, cadence, dist, hr) == MkSlot(131, SIGNATURE, watts, ms, cadence, dist, hr)

\* The slots of the general family: a footer slot that differs from a data
\* record in one signature byte, records less than one second apart, records
\* at and just beyond the 5000 ms gap after 1100 ms, and the corrupt sentinel;
\* distances zero, positive, negative, NaN and infinite.
SlotKinds ==
    { MkSlot(80, <<0, 1, 1>>, 200, 550, 80, F32_TWO, 120),
      Rec(100, 0, 90, F32_ZERO, 50),
      Rec(101, 550, 80, F32_ONE, 50),
      Rec(0, 1100, 0, F32_TWO, 120),
      Rec(3, 1999, 0, F32_NEG_ONE, 0),
      Rec(101, 2000, 90, F32_ZERO, 50),
      Rec(255, 6100, 90, F32_HALF, 0),
      Rec(50, 6101, 91, F32_NAN, 51),
      Rec(7, 1100000000, 80, F32_INF, 120) }

\* The header region: nothing of it is a record.
Header == [j \in 1..RECORD_START |-> 0]

RECURSIVE Flatten(_)
Flatten(ss) == IF ss = <<>> THEN <<>> ELSE Head(ss) \o Flatten(Tail(ss))

\* Sequences of 1..n elements of S.
RECURSIVE SeqsUpTo(_, _)
SeqsUpTo(S, n) ==
    IF n = 0 THEN {<<>>}
    ELSE LET shorter == SeqsUpTo(S, n - 1)
         IN  shorter \cup {Append(q, x) : q \in shorter, x \in S}

GeneralBuffers ==
    {Header \o Flatten(q) : q \in SeqsUpTo(SlotKinds, MaxSlots) \ {<<>>}}

\* The timestamps of the corrupt-tail example: 0, 550, 1100, 1100000000.
ExampleBuffer ==
    Header \o Rec(100, 0, 90, F32_ZERO, 50) \o Rec(110, 550, 90, F32_ZERO, 50)
           \o Rec(120, 1100, 90, F32_ZERO, 50)
           \o Rec(130, 1100000000, 90, F32_ZERO, 50)

\* Files cut short inside the header or inside the first record.
ShortLengths == {0, 16, RECORD_START, RECORD_START + RECORD_SIZE - 1}

ShortBuffers ==
    {SubSeq(Header \o Rec(100, 0, 90, F32_ZERO, 50), 1, n) : n \in ShortLengths}

\* One record followed by the first bytes of another.
TailLengths == {1, RECORD_SIZE - 1}

TailBuffers ==
    {Header \o Rec(101, 550, 80, F32_ONE, 50)
            \o SubSeq(Rec(0, 1100, 0, F32_TWO, 120), 1, n) : n \in TailLengths}

\* n records 550 ms apart, the first k with a real cadence reading and the
\* last h with a real heart rate.
SensorBuffer(n, k, h) ==
    Header \o Flatten([j \in 1..n |->
        Rec(100, 550 * (j - 1), IF j <= k THEN 80 ELSE CADENCE_DEFAULT, F32_ZERO,
            IF j > n - h THEN 120 ELSE HR_DEFAULT)])

SensorBuffers ==
    {SensorBuffer(n, k, h) :
        n \in 1..MaxSensorSlots, k \in 0..MaxReal, h \in 0..MaxReal}

\* The starts of the athlete-name field: empty, plain ASCII, text after a
\* first zero byte, two-, three- and four-byte characters, a byte order mark
\* alone and before a letter, and malformed sequences (a lone FF, a lead
\* byte cut by the terminator, an overlong form, a surrogate).
NameStarts ==
    { <<>>,
      <<65, 108>>,
      <<0, 65, 108>>,
      <<195, 169>>,
      <<226, 130, 172, 33>>,
      <<240, 159, 154, 180>>,
      <<239, 187, 191>>,
      <<239, 187, 191, 65>>,
      <<255>>,
      <<65, 195>>,
      <<192, 128>>,
      <<237, 160, 128>>,
      <<85, 110, 107, 110, 111, 119, 110>> }

\* The header whose name field starts with ns and goes on with the byte pad.
HeaderNamed(ns, pad) ==
    [j \in 1..RECORD_START |->
        IF j <= HEADER_NAME_OFFSET \/ j > HEADER_NAME_OFFSET + NAME_FIELD_LEN
        THEN IF j = HEADER_NAME_OFFSET + NAME_FIELD_LEN + 1 THEN 66 ELSE 0
        ELSE IF j - HEADER_NAME_OFFSET <= Len(ns) THEN ns[j - HEADER_NAME_OFFSET]
        ELSE pad]

\* One-record files with a name in the header, zero-padded or filling the
\* field to its last byte (the byte after the field is a letter).
NameBuffers ==
    { HeaderNamed(ns, pad) \o Rec(100, 0, 90, F32_ZERO, 50) :
        ns \in NameStarts, pad \in {0, 67} }

Buffers ==
    GeneralBuffers \cup {ExampleBuffer} \cup ShortBuffers \cup TailBuffers
    \cup SensorBuffers \cup NameBuffers

\* ------------------------------------------------------------------ the page
\* A file name is its stem and its extension; a File is its name and bytes.

NoName == [stem |-> "", ext |-> ""]

\* currentFile = null
NoFile == [name |-> NoName, bytes |-> <<>>]

\* ext.toLowerCase(), on the extensions the model draws.
LowerExt(ext) == IF ext = ".3DP" THEN ".3dp" ELSE ext

\* file.name.toLowerCase().endsWith('.3dp')
Is3dpName(name) == LowerExt(name.ext) = ".3dp"

\* name.replace(/\.3dp$/i, '.tcx')
TcxName(name) == IF Is3dpName(name) THEN [name EXCEPT !.ext = ".tcx"] ELSE name

\* currentOutput = null
NoOutput == [filename |-> NoName, blob |-> NoTcx, source |-> NoFile]

\* currentOutput = { blob, filename }; source is the file whose bytes the
\* blob was converted from (the file of the reader, not a field of the
\* object).
OutputOf(doc, file, read) ==
    [filename |-> TcxName(file.name), blob |-> doc, source |-> read]

\* convertBtn.disabled = false; convertBtn.textContent = 'Convert'
BtnReady == [disabled |-> FALSE, text |-> "Convert"]

\* convertBtn.disabled = true; convertBtn.textContent = 'Converting...'
BtnBusy == [disabled |-> TRUE, text |-> "Converting..."]

NoReader == [loading |-> FALSE, file |-> NoFile]

TYPE_ERROR == "TypeError: Cannot read properties of null (reading 'name')"

READ_ERROR_TEXT == <<"Could not read the file. Please try again.">>

\* The text shown for a file that is no .3dp file.
NotA3dpText(name) ==
    <<"\"", name.stem, name.ext,
      "\" does not appear to be a .3dp file. Please select a PerfPro file.">>

\* The file of the runs of parse3dp taken step by step.
RIDE_NAME == [stem |-> "ride", ext |-> ".3dp"]

\* ------------------------------------------------------------------ actions

Init ==
    /\ bytes \in Buffers
    /\ pc = "start"
    /\ loc = InitLocals(<<>>)
    /\ trackpoints = <<>>
    /\ stats = NoStats
    /\ athleteName = <<>>
    /\ error = ""
    /\ startTime = NotPicked
    /\ tcx = NoTcx
    /\ tcxError = ""
    /\ errorMsg = <<>>
    /\ section = "optionsSection"
    /\ currentFile = [name |-> RIDE_NAME, bytes |-> bytes]
    /\ currentOutput = NoOutput
    /\ convertBtn = BtnBusy
    /\ reader = [loading |-> FALSE, file |-> currentFile]
    /\ uncaught = ""

\* parse3dp is called with a buffer too short for one record; the catch
\* block of reader.onload shows the error.
ThrowTooSmall ==
    /\ pc = "start"
    /\ TooSmall(bytes)
    /\ pc' = "error"
    /\ error' = ERR_TOO_SMALL
    /\ errorMsg' = ParseErrorText(ERR_TOO_SMALL)
    /\ section' = "errorSection"
    /\ convertBtn' = BtnReady
    /\ UNCHANGED <<bytes, loc, trackpoints, stats, athleteName, startTime, tcx, tcxError,
                   currentFile, currentOutput, reader, uncaught>>

\* parse3dp is called and reaches the loop.
Begin ==
    /\ pc = "start"
    /\ ~TooSmall(bytes)
    /\ pc' = "scan"
    /\ loc' = InitLocals(bytes)
    /\ UNCHANGED <<bytes, trackpoints, stats, athleteName, error, outVars>>

InLoop == pc = "scan" /\ loc.i < loc.totalSlots

CurrentMs == readUint32LE(bytes, OffsetOf(loc.i) + TIMESTAMP_MS_OFFSET)

\* An iteration over a slot that is no data record.
SkipNonData ==
    /\ InLoop
    /\ ~isDataRecord(bytes, OffsetOf(loc.i))
    /\ loc' = ScanSlot(loc, bytes)
    /\ UNCHANGED <<bytes, pc, trackpoints, stats, athleteName, error, outVars>>

\* An iteration over a data record with an out-of-range timestamp.
RejectSentinel ==
    /\ InLoop
    /\ isDataRecord(bytes, OffsetOf(loc.i))
    /\ IsCorruptSentinel(loc.prevMs, CurrentMs)
    /\ loc' = ScanSlot(loc, bytes)
    /\ UNCHANGED <<bytes, pc, trackpoints, stats, athleteName, error, outVars>>

\* An iteration over a data record that is accepted.
Accept ==
    /\ InLoop
    /\ isDataRecord(bytes, OffsetOf(loc.i))
    /\ ~IsCorruptSentinel(loc.prevMs, CurrentMs)
    /\ loc' = ScanSlot(loc, bytes)
    /\ UNCHANGED <<bytes, pc, trackpoints, stats, athleteName, error, outVars>>

\* The loop is over and no record was accepted.
ThrowNoData ==
    /\ pc = "scan"
    /\ loc.i >= loc.totalSlots
    /\ NoValidData(loc)
    /\ pc' = "error"
    /\ error' = ERR_NO_DATA
    /\ errorMsg' = ParseErrorText(ERR_NO_DATA)
    /\ section' = "errorSection"
    /\ convertBtn' = BtnReady
    /\ UNCHANGED <<bytes, loc, trackpoints, stats, athleteName, startTime, tcx, tcxError,
                   currentFile, currentOutput, reader, uncaught>>

\* The loop is over: build the trackpoints and the stats, return.
Return ==
    /\ pc = "scan"
    /\ loc.i >= loc.totalSlots
    /\ ~NoValidData(loc)
    /\ trackpoints' = Trackpoints(loc)
    /\ stats' = Stats(loc, Trackpoints(loc))
    /\ athleteName' = AthleteName(bytes)
    /\ pc' = "done"
    /\ UNCHANGED <<bytes, loc, error, outVars>>

\* reader.onload goes on after parse3dp returned: buildTcx returns the
\* document for the start instant s and the result section is shown.
BuildTcx ==
    /\ pc = "done"
    /\ \E s \in StartInstants :
          /\ ~buildTcxThrows(trackpoints, s)
          /\ startTime' = s
          /\ tcx' = buildTcx(trackpoints, stats, s)
    /\ pc' = "built"
    /\ currentOutput' = OutputOf(tcx', currentFile, reader.file)
    /\ convertBtn' = BtnReady
    /\ section' = "resultSection"
    /\ UNCHANGED <<bytes, loc, trackpoints, stats, athleteName, error, tcxError, errorMsg,
                   currentFile, reader, uncaught>>

\* buildTcx raises the RangeError of toISOString; reader.onload does not
\* catch it.
BuildTcxThrows ==
    /\ pc = "done"
    /\ \E s \in StartInstants :
          /\ buildTcxThrows(trackpoints, s)
          /\ startTime' = s
    /\ pc' = "buildError"
    /\ tcxError' = RANGE_ERROR
    /\ uncaught' = RANGE_ERROR
    /\ UNCHANGED <<bytes, loc, trackpoints, stats, athleteName, error, tcx, errorMsg,
                   section, currentFile, currentOutput, convertBtn, reader>>

Next ==
    \/ ThrowTooSmall
    \/ Begin
    \/ SkipNonData
    \/ RejectSentinel
    \/ Accept
    \/ ThrowNoData
    \/ Return
    \/ BuildTcx
    \/ BuildTcxThrows

Spec == Init /\ [][Next]_vars

\* ------------------------------------------------- the file, read directly
\* What the properties below say about a file, stated on its bytes.

\* The 48-byte slots that lie whole inside the buffer, numbered from 0.
FullSlots(b) ==
    {k \in 0..(Len(b) \div RECORD_SIZE) : RECORD_START + (k + 1) * RECORD_SIZE <= Len(b)}

\* Bytes 1..3 of slot k are 0x00 0x01 0x00.
SigMatches(b, k) == SubSeq(b, OffsetOf(k) + 2, OffsetOf(k) + 4) = <<0, 1, 0>>

\* The embedded timestamp of slot k.
TsAt(b, k) == readUint32LE(b, OffsetOf(k) + TIMESTAMP_MS_OFFSET)

\* The accepted records among slots 0..n-1, in file order: a signature-matching
\* slot is accepted unless an accepted record precedes it and its timestamp
\* exceeds that record's by more than 5000 ms.
RECURSIVE AcceptedUpTo(_, _)
AcceptedUpTo(b, n) ==
    IF n = 0 THEN <<>>
    ELSE LET prev == AcceptedUpTo(b, n - 1)
             k    == n - 1
         IN  IF /\ SigMatches(b, k)
                /\ (prev = <<>> \/ TsAt(b, k) - TsAt(b, prev[Len(prev)]) <= 5000)
             THEN Append(prev, k)
             ELSE prev

AcceptedSeq(b) == AcceptedUpTo(b, Cardinality(FullSlots(b)))

AcceptedSet(b) == LET acc == AcceptedSeq(b) IN {acc[j] : j \in 1..Len(acc)}

\* The signature-matching slots that are not accepted.
RejectedSet(b) == {k \in FullSlots(b) : SigMatches(b, k)} \ AcceptedSet(b)

\* The bytes at a field offset of the accepted records of second sec, in file order.
BucketBytes(b, sec, field) ==
    LET acc == AcceptedSeq(b)
        idx == SelectSeq(acc, LAMBDA k : TsAt(b, k) \div 1000 = sec)
    IN  [j \in 1..Len(idx) |-> At(b, OffsetOf(idx[j]) + field)]

\* The buffer without slot k.
RemoveSlot(b, k) ==
    SubSeq(b, 1, OffsetOf(k)) \o SubSeq(b, OffsetOf(k) + RECORD_SIZE + 1, Len(b))

\* parse3dp as a function of the buffer: the whole loop, then the result.
RECURSIVE ScanAll(_, _)
ScanAll(l, b) == IF l.i >= l.totalSlots THEN l ELSE ScanAll(ScanSlot(l, b), b)

Workout(b) ==
    LET l == ScanAll(InitLocals(b), b)
    IN  [trackpoints |-> Trackpoints(l), stats |-> Stats(l, Trackpoints(l))]

\* parse3dp as a function of the buffer: what it throws or returns.
parse3dp(b) ==
    IF TooSmall(b)
    THEN [threw |-> TRUE, message |-> ERR_TOO_SMALL,
          athleteName |-> <<>>, trackpoints |-> <<>>, stats |-> NoStats]
    ELSE LET l == ScanAll(InitLocals(b), b)
         IN  IF NoValidData(l)
             THEN [threw |-> TRUE, message |-> ERR_NO_DATA,
                   athleteName |-> <<>>, trackpoints |-> <<>>, stats |-> NoStats]
             ELSE [threw |-> FALSE, message |-> "",
                   athleteName |-> AthleteName(b),
                   trackpoints |-> Trackpoints(l),
                   stats |-> Stats(l, Trackpoints(l))]

Returned == pc = "done"

Threw(msg) == pc = "error" /\ error = msg

\* ------------------------------------------------------------------- claims

Terminated == pc \in {"done", "error"}

LastAccepted(b) == LET acc == AcceptedSeq(b) IN acc[Len(acc)]

\* C1: whenever parse3dp returns, stats.durationSec is floor(ms / 1000) of the
\* embedded timestamp of the last record accepted in file order.
C1_DurationFromLastTimestamp ==
    Returned => stats.durationSec = TsAt(bytes, LastAccepted(bytes)) \div 1000

\* A returned workout whose duration differs from its record count, from the
\* slot index of its last record and from its largest bucket key.
C1_Witness ==
    /\ Returned
    /\ stats.durationSec # stats.recordCount
    /\ stats.durationSec # LastAccepted(bytes)
    /\ stats.durationSec < trackpoints[Len(trackpoints)].sec

\* The loop is at a signature-matching slot whose timestamp exceeds that of
\* the previously accepted record by more than 5000 ms.
AtSentinel ==
    /\ InLoop
    /\ SigMatches(bytes, loc.i)
    /\ LET before == AcceptedUpTo(bytes, loc.i)
       IN  /\ before # <<>>
           /\ TsAt(bytes, loc.i) - TsAt(bytes, before[Len(before)]) > 5000

\* C2: the iteration over such a record changes nothing but the loop index
\* (cursor, last-valid timestamp, counters and buckets stay), and the workout
\* returned is the workout of the same file without that record.
C2_SentinelDiscarded ==
    /\ [][AtSentinel =>
            /\ loc' = [loc EXCEPT !.i = loc.i + 1]
            /\ UNCHANGED <<trackpoints, stats>>]_vars
    /\ [](Returned =>
            \A k \in RejectedSet(bytes) :
                [trackpoints |-> trackpoints, stats |-> stats]
                    = Workout(RemoveSlot(bytes, k)))

\* The example file: timestamps 0, 550, 1100, 1100000000; the last is dropped.
C2_Witness ==
    /\ Returned
    /\ bytes = ExampleBuffer
    /\ RejectedSet(bytes) = {3}
    /\ stats.recordCount = 3
    /\ stats.durationSec = 1
    /\ Len(trackpoints) = 2

\* C3: parse3dp fails with the too-small error exactly for the buffers shorter
\* than 320 bytes, and then before the loop has read anything.
C3_TooSmallIffShort ==
    pc # "start" =>
        /\ Threw(ERR_TOO_SMALL) <=> Len(bytes) < 320
        /\ Threw(ERR_TOO_SMALL) => loc = InitLocals(<<>>) /\ trackpoints = <<>>

\* A 319-byte file, whose 47 record bytes carry the signature, is refused.
C3_Witness ==
    /\ Threw(ERR_TOO_SMALL)
    /\ Len(bytes) = 319
    /\ SubSeq(bytes, RECORD_START + 2, RECORD_START + 4) = <<0, 1, 0>>

NoSignature(b) == \A k \in FullSlots(b) : ~SigMatches(b, k)

\* C4: a buffer of at least 320 bytes none of whose slots carries the signature
\* ends in the no-valid-data error and returns no workout.
C4_NoSignatureNoData ==
    (Terminated /\ Len(bytes) >= 320 /\ NoSignature(bytes)) =>
        /\ Threw(ERR_NO_DATA)
        /\ trackpoints = <<>>
        /\ stats = NoStats

\* The error after a scan of several slots.
C4_Witness ==
    /\ Threw(ERR_NO_DATA)
    /\ Cardinality(FullSlots(bytes)) >= 2
    /\ loc.i = Cardinality(FullSlots(bytes))

\* C5: parse3dp fails in two ways only; a buffer of at least 320 bytes with a
\* signature-matching slot yields a complete workout, and nothing of a workout
\* exists unless the call returned.
C5_OnlyTwoFailures ==
    /\ pc = "error" => error \in {ERR_TOO_SMALL, ERR_NO_DATA}
    /\ (Terminated /\ Len(bytes) >= 320 /\ ~NoSignature(bytes)) =>
            /\ Returned
            /\ error = ""
            /\ Len(trackpoints) >= 1
            /\ stats.recordCount >= 1
    /\ pc \in {"start", "scan", "error"} => trackpoints = <<>> /\ stats = NoStats

\* A workout returned from a file with a footer slot and a rejected record.
C5_Witness ==
    /\ Returned
    /\ RejectedSet(bytes) # {}
    /\ \E k \in FullSlots(bytes) : ~SigMatches(bytes, k)

\* The accepted records whose byte at a field offset is neither dflt nor 0.
RealReadings(b, field, dflt) ==
    {k \in AcceptedSet(b) : At(b, OffsetOf(k) + field) \notin {dflt, 0}}

\* C6: hasCadence holds iff the accepted records with a cadence byte other than
\* 90 and 0 are strictly more than 5% of the accepted records; hasHR likewise
\* with 50 and 0.
C6_SensorThreshold ==
    Returned =>
        LET n == Cardinality(AcceptedSet(bytes))
        IN  /\ stats.hasCadence
                <=> 100 * Cardinality(RealReadings(bytes, 38, 90)) > 5 * n
            /\ stats.hasHR
                <=> 100 * Cardinality(RealReadings(bytes, 46, 50)) > 5 * n
            /\ (n = 50 /\ Cardinality(RealReadings(bytes, 38, 90)) = 3)
                => stats.hasCadence

\* Twenty records: one real cadence reading (exactly 5%) is no sensor, two
\* real heart-rate readings are one.
C6_Witness ==
    /\ Returned
    /\ Cardinality(AcceptedSet(bytes)) = 20
    /\ Cardinality(RealReadings(bytes, 38, 90)) = 1
    /\ Cardinality(RealReadings(bytes, 46, 50)) = 2
    /\ ~stats.hasCadence
    /\ stats.hasHR

\* The distance reading of slot k.
DistAt(b, k) == readFloat32LE(b, OffsetOf(k) + DIST_KM_OFFSET)

TpIndex == 1..Len(trackpoints)

\* C7 as stated: the distances of the trackpoints that have one never decrease
\* along the sequence.
C7_DistanceNeverDecreases ==
    Returned =>
        \A p, q \in TpIndex :
            (p < q /\ trackpoints[p].distMeters # Null /\ trackpoints[q].distMeters # Null)
                => trackpoints[p].distMeters <= trackpoints[q].distMeters

\* The accepted records run forward in time and their positive distance
\* readings never decrease, in file order.
CumulativeFile(b) ==
    LET acc == AcceptedSeq(b)
    IN  \A p, q \in 1..Len(acc) :
            p < q =>
                /\ TsAt(b, acc[p]) <= TsAt(b, acc[q])
                /\ (FloatGtZero(DistAt(b, acc[p])) /\ FloatGtZero(DistAt(b, acc[q])))
                      => KmToMeters(DistAt(b, acc[p])) <= KmToMeters(DistAt(b, acc[q]))

\* C7, amended: for a file whose accepted records have non-decreasing
\* timestamps and non-decreasing positive distance readings in file order, the
\* distances of the trackpoints that have one never decrease.
C7_DistanceMonotoneOnCumulativeFile ==
    (Returned /\ CumulativeFile(bytes)) =>
        \A p, q \in TpIndex :
            (p < q /\ trackpoints[p].distMeters # Null /\ trackpoints[q].distMeters # Null)
                => trackpoints[p].distMeters <= trackpoints[q].distMeters

\* Such a file with a growing distance and a trackpoint without one.
C7_Witness ==
    /\ Returned
    /\ CumulativeFile(bytes)
    /\ \E p, q \in TpIndex :
            /\ p < q
            /\ trackpoints[p].distMeters # Null
            /\ trackpoints[q].distMeters # Null
            /\ trackpoints[p].distMeters < trackpoints[q].distMeters
    /\ \E p \in TpIndex : trackpoints[p].distMeters = Null

\* Every trackpoint but the one of the largest second is followed by a
\* trackpoint of the next second: the seconds from the first to the last
\* trackpoint all have one.
NoMissingSecond ==
    \A p \in TpIndex :
        \/ \A q \in TpIndex : trackpoints[q].sec <= trackpoints[p].sec
        \/ \E q \in TpIndex : trackpoints[q].sec = trackpoints[p].sec + 1

\* C8 as stated: every second between the first and the last trackpoint has a
\* trackpoint.
C8_EverySecondHasTrackpoint == Returned => NoMissingSecond

\* Successive accepted records are at most 1000 ms apart.
DenselySampled(b) ==
    LET acc == AcceptedSeq(b)
    IN  \A p \in 1..(Len(acc) - 1) :
            /\ TsAt(b, acc[p + 1]) - TsAt(b, acc[p]) <= 1000
            /\ TsAt(b, acc[p]) - TsAt(b, acc[p + 1]) <= 1000

\* C8, amended: when successive accepted records are at most 1000 ms apart,
\* every second between the first and the last trackpoint has a trackpoint.
C8_NoGapWhenDenselySampled == (Returned /\ DenselySampled(bytes)) => NoMissingSecond

\* A densely sampled file that spans three seconds.
C8_Witness ==
    /\ Returned
    /\ DenselySampled(bytes)
    /\ Len(trackpoints) >= 3

\* v is the mean of the readings rs rounded to the nearest integer, a half up:
\* v - 1/2 <= mean < v + 1/2.
IsRoundedMean(v, rs) ==
    /\ rs # <<>>
    /\ 2 * Len(rs) * v - Len(rs) <= 2 * SumSeq(rs)
    /\ 2 * SumSeq(rs) < 2 * Len(rs) * v + Len(rs)

\* C9: each trackpoint's watts is the mean of the power bytes of the accepted
\* records of its second, rounded to the nearest integer with halves up; a
\* cadence or heart rate that is present is the mean of its bytes, rounded alike.
C9_RoundedBucketMeans ==
    Returned =>
        \A p \in TpIndex :
            LET tp == trackpoints[p]
            IN  /\ IsRoundedMean(tp.watts, BucketBytes(bytes, tp.sec, 4))
                /\ tp.cadence # Null
                      => IsRoundedMean(tp.cadence, BucketBytes(bytes, tp.sec, 38))
                /\ tp.hr # Null
                      => IsRoundedMean(tp.hr, BucketBytes(bytes, tp.sec, 46))

\* Power readings 100 and 101 in one second give 101, and a cadence is present.
C9_Witness ==
    /\ Returned
    /\ \E p \in TpIndex :
            /\ BucketBytes(bytes, trackpoints[p].sec, 4) = <<100, 101>>
            /\ trackpoints[p].watts = 101
            /\ trackpoints[p].cadence # Null

\* The seconds of the accepted records.
AcceptedSeconds(b) == {TsAt(b, k) \div 1000 : k \in AcceptedSet(b)}

\* C10: the trackpoints are strictly ascending in sec, and there is exactly one
\* for each second floor(ms / 1000) of an accepted record.
C10_OnePerSecondAscending ==
    Returned =>
        /\ \A p, q \in TpIndex : p < q => trackpoints[p].sec < trackpoints[q].sec
        /\ {trackpoints[p].sec : p \in TpIndex} = AcceptedSeconds(bytes)
        /\ Len(trackpoints) = Cardinality(AcceptedSeconds(bytes))

\* A file whose accepted records go back in time by more than a second.
C10_Witness ==
    /\ Returned
    /\ Len(trackpoints) >= 2
    /\ LET acc == AcceptedSeq(bytes)
       IN  \E p \in 1..(Len(acc) - 1) :
               TsAt(bytes, acc[p]) \div 1000 > TsAt(bytes, acc[p + 1]) \div 1000

\* The sensor-presence test on the file: more than 5% of the accepted records
\* carry a byte at the field offset that is neither dflt nor 0.
SensorPresent(b, field, dflt) ==
    100 * Cardinality(RealReadings(b, field, dflt)) > 5 * Cardinality(AcceptedSet(b))

\* v is the reading reported for a second whose accepted records carry the
\* readings rs: absent without the sensor, absent when the rounded mean is
\* zero, the rounded mean otherwise.
IsReportedReading(v, rs, present) ==
    IF ~present \/ IsRoundedMean(0, rs) THEN v = Null
    ELSE v # Null /\ v # 0 /\ IsRoundedMean(v, rs)

\* C11: without the cadence sensor every trackpoint's cadence is absent; with
\* it a trackpoint's cadence is the rounded mean of its second's cadence
\* bytes, absent when that mean is zero.  Heart rate likewise.
C11_SensorGatedReadings ==
    Returned =>
        \A p \in TpIndex :
            LET tp == trackpoints[p]
            IN  /\ IsReportedReading(tp.cadence, BucketBytes(bytes, tp.sec, 38),
                                     SensorPresent(bytes, 38, 90))
                /\ IsReportedReading(tp.hr, BucketBytes(bytes, tp.sec, 46),
                                     SensorPresent(bytes, 46, 50))

\* A workout with the cadence sensor present, one trackpoint with a cadence
\* and one whose zero mean is reported absent.
C11_Witness ==
    /\ Returned
    /\ stats.hasCadence
    /\ \E p \in TpIndex : trackpoints[p].cadence = Null
    /\ \E p \in TpIndex : trackpoints[p].cadence # Null

\* The positive distance readings of the accepted records of second sec, in
\* file order.
PositiveDists(b, sec) ==
    LET idx == SelectSeq(AcceptedSeq(b),
                         LAMBDA k : TsAt(b, k) \div 1000 = sec
                                    /\ FloatGtZero(DistAt(b, k)))
    IN  [j \in 1..Len(idx) |-> DistAt(b, idx[j])]

\* All the distance readings of the accepted records of second sec.
AllDists(b, sec) ==
    LET idx == SelectSeq(AcceptedSeq(b), LAMBDA k : TsAt(b, k) \div 1000 = sec)
    IN  [j \in 1..Len(idx) |-> DistAt(b, idx[j])]

\* C12: a trackpoint's distMeters is 1000 times the last positive distance
\* reading of its second in file order, and absent iff the second has none.
C12_LastPositiveDistance ==
    Returned =>
        \A p \in TpIndex :
            LET pos == PositiveDists(bytes, trackpoints[p].sec)
            IN  IF pos = <<>> THEN trackpoints[p].distMeters = Null
                ELSE trackpoints[p].distMeters = KmToMeters(pos[Len(pos)])

\* A second whose positive reading is followed by a reading that is not
\* positive, and a second with no positive reading.
C12_Witness ==
    /\ Returned
    /\ \E p \in TpIndex :
            LET all == AllDists(bytes, trackpoints[p].sec)
            IN  /\ Len(all) >= 2
                /\ FloatGtZero(all[1])
                /\ ~FloatGtZero(all[Len(all)])
                /\ trackpoints[p].distMeters = KmToMeters(all[1])
    /\ \E p \in TpIndex : trackpoints[p].distMeters = Null

\* The watts of the trackpoints of strictly positive power.
PositiveWatts == SelectSeq([p \in TpIndex |-> trackpoints[p].watts], LAMBDA w : w > 0)

\* C13: avgWatts is the rounded mean and maxWatts the maximum of the watts of
\* the trackpoints of strictly positive power; both are 0 when there is none.
C13_PowerStatsOverPositive ==
    Returned =>
        IF PositiveWatts = <<>> THEN stats.avgWatts = 0 /\ stats.maxWatts = 0
        ELSE /\ IsRoundedMean(stats.avgWatts, PositiveWatts)
             /\ \E j \in 1..Len(PositiveWatts) : PositiveWatts[j] = stats.maxWatts
             /\ \A j \in 1..Len(PositiveWatts) : PositiveWatts[j] <= stats.maxWatts

\* A workout with a zero-power trackpoint and two different positive powers.
C13_Witness ==
    /\ Returned
    /\ \E p \in TpIndex : trackpoints[p].watts = 0
    /\ Len(PositiveWatts) >= 2
    /\ stats.avgWatts < stats.maxWatts

\* The trackpoints that have a distance.
WithDistance == {p \in TpIndex : trackpoints[p].distMeters # Null}

\* C14: totalDistMeters is the distance of the last trackpoint that has one,
\* and it is 0 iff no trackpoint has a distance.
C14_TotalDistanceIsLast ==
    Returned =>
        /\ WithDistance # {} =>
              \E p \in WithDistance :
                  /\ \A q \in WithDistance : q <= p
                  /\ stats.totalDistMeters = trackpoints[p].distMeters
        /\ stats.totalDistMeters = 0 <=> WithDistance = {}

\* The last trackpoint has no distance and two earlier ones differ.
C14_Witness ==
    /\ Returned
    /\ Len(trackpoints) >= 3
    /\ trackpoints[Len(trackpoints)].distMeters = Null
    /\ trackpoints[1].distMeters # Null
    /\ trackpoints[2].distMeters # Null
    /\ trackpoints[1].distMeters # trackpoints[2].distMeters
    /\ stats.totalDistMeters = trackpoints[2].distMeters

\* buildTcx returned a document.
Built == pc = "built"

\* The only lap of the document and its track.
Lap == tcx.laps[1]
Track == Lap.track

\* The text x shows second s of day d.
ShowsSecond(x, d, s) ==
    /\ x.date = d
    /\ x.hh * 3600 + x.mm * 60 + x.ss = s
    /\ x.hh \in 0..23 /\ x.mm \in 0..59 /\ x.ss \in 0..59

\* C15: every trackpoint's Time is the start instant plus tp.sec seconds with
\* the milliseconds cut off, never rounded up; Id and the lap's StartTime are
\* both the start instant cut the same way.
C15_TimesTruncatedToSeconds ==
    Built =>
        /\ ShowsSecond(tcx.id, startTime.day, startTime.sod)
        /\ Lap.startTime = tcx.id
        /\ \A j \in 1..Len(Track) :
              LET t == startTime.sod + trackpoints[j].sec
              IN  ShowsSecond(Track[j].time,
                              startTime.day + (t \div 86400), t % 86400)

\* A start instant 999 ms into the last second of a day, and a trackpoint of
\* a later second that falls on the next day.
C15_Witness ==
    /\ Built
    /\ startTime.ms >= 500
    /\ \E j \in 1..Len(Track) :
          /\ trackpoints[j].sec > 0
          /\ Track[j].time.date = startTime.day + 1

\* The element e is there iff v is not null, and then it holds v.
PresentIff(e, v) == IF v = Null THEN e = <<>> ELSE e = <<v>>

\* C16: the track has one Trackpoint per input trackpoint, in order, each
\* with its Time and Watts, with HeartRateBpm iff tp.hr is present, with
\* DistanceMeters in two decimals iff tp.distMeters is present, and with the
\* cadence extension iff tp.cadence is present.
C16_OneElementPerTrackpoint ==
    Built =>
        /\ Len(Track) = Len(trackpoints)
        /\ \A j \in 1..Len(Track) :
              LET tp == trackpoints[j]
              IN  /\ Track[j].watts = tp.watts
                  /\ PresentIff(Track[j].hr, tp.hr)
                  /\ PresentIff(Track[j].cadence, tp.cadence)
                  /\ Len(Track[j].distance) = 1 <=> tp.distMeters # Null
                  /\ \A k \in 1..Len(Track[j].distance) :
                        /\ Track[j].distance[k].kind = "fixed"
                        /\ Track[j].distance[k].frac \in 0..99

\* C17: the document has exactly one lap; its TotalTimeSeconds is
\* stats.durationSec, its DistanceMeters stats.totalDistMeters in two
\* decimals (0.00 without any distance), its Calories 0 and its AvgWatts and
\* MaxWatts the stats values.
C17_OneLapSummary ==
    Built =>
        /\ Len(tcx.laps) = 1
        /\ Lap.totalTimeSeconds = stats.durationSec
        /\ Lap.distanceMeters.kind = "fixed"
        /\ Lap.distanceMeters.frac \in 0..99
        /\ WithDistance = {} =>
              Lap.distanceMeters.int = 0 /\ Lap.distanceMeters.frac = 0
        /\ Lap.calories = 0
        /\ Lap.avgWatts = stats.avgWatts
        /\ Lap.maxWatts = stats.maxWatts

\* C18 as stated: buildTcx never raises.
C18_BuildTcxNeverRaises == pc # "buildError" /\ tcxError = ""

\* Every trackpoint's instant, the start instant plus its seconds, lies
\* within the range of Date.
AllInstantsInRange ==
    \A j \in 1..Len(trackpoints) :
        LET t == startTime.sod + trackpoints[j].sec
            d == startTime.day + (t \div 86400)
        IN  d < 100000000 \/ (d = 100000000 /\ t % 86400 = 0 /\ startTime.ms = 0)

\* C18 (amended): buildTcx returns a document and raises nothing whenever
\* every trackpoint's instant lies within the range of Date, and raises
\* only otherwise.
C18_TotalWithinDateRange ==
    pc \in {"built", "buildError"} =>
        IF AllInstantsInRange
        THEN pc = "built" /\ tcxError = ""
        ELSE pc = "buildError" /\ tcxError = RANGE_ERROR

\* A document whose last trackpoint falls on the very last instant of the
\* range of Date.
C18_Witness ==
    /\ Built
    /\ startTime.day = MAX_DAY - 1
    /\ trackpoints[Len(trackpoints)].sec = 1
    /\ Track[Len(Track)].time.date = MAX_DAY

\* C20 as stated: the text shown is the decoder's message and nothing else.
C20_ErrorShownVerbatim ==
    pc = "error" => errorMsg = <<error>> /\ section = "errorSection"

\* C20 (amended): when parse3dp raises, the error section is shown and its
\* text is "Parse error: " followed by the decoder's message unchanged.
C20_ErrorShownAfterPrefix ==
    /\ pc = "error" =>
          /\ error \in {ERR_TOO_SMALL, ERR_NO_DATA}
          /\ errorMsg = <<"Parse error: ", error>>
          /\ section = "errorSection"
    /\ pc # "error" => errorMsg = <<>> /\ section # "errorSection"

\* parse3dp raised the no-data error and the error section shows it.
C20_Witness ==
    /\ pc = "error"
    /\ error = ERR_NO_DATA
    /\ section = "errorSection"

\* The bytes of the name field before its first zero byte, all of them when
\* it has none.
NameBytes(b) ==
    LET field == [j \in 1..64 |-> b[16 + j]]
        zeros == {j \in 1..64 : field[j] = 0}
        n     == IF zeros = {} THEN 64
                 ELSE (CHOOSE j \in zeros : \A k \in zeros : j <= k) - 1
    IN  [j \in 1..n |-> field[j]]

\* C21: athleteName is the text of the name field up to its first zero byte
\* (the whole field without one), and it is 'Unknown' when that text is
\* empty or the bytes cannot be decoded.
C21_NameOrPlaceholder ==
    Returned =>
        LET d == Utf8Decode(NameBytes(bytes))
        IN  IF d.text = <<>> \/ d.errors > 0
            THEN athleteName = UNKNOWN
            ELSE athleteName = d.text

\* The loop is at a slot that does not carry the signature.
AtNonMatching == InLoop /\ ~SigMatches(bytes, loc.i)

\* The slots that do not carry the signature.
NonMatchingSet(b) == {k \in FullSlots(b) : ~SigMatches(b, k)}

\* C22: the iteration over a slot without the signature changes nothing but
\* the loop index, and the workout returned is the workout of the same file
\* without that slot, wherever the slot stands among the records.
C22_NonMatchingSlotNoEffect ==
    /\ [][AtNonMatching =>
            /\ loc' = [loc EXCEPT !.i = loc.i + 1]
            /\ UNCHANGED <<trackpoints, stats, athleteName, error>>]_vars
    /\ [](Returned =>
            \A k \in NonMatchingSet(bytes) :
                [trackpoints |-> trackpoints, stats |-> stats]
                    = Workout(RemoveSlot(bytes, k)))

\* A slot without the signature between an accepted record and a record that
\* is rejected for its gap from the record before the slot.
C22_Witness ==
    /\ Returned
    /\ \E k \in NonMatchingSet(bytes) :
          /\ k - 1 \in AcceptedSet(bytes)
          /\ k + 1 \in RejectedSet(bytes)

\* The buffer cut after its last whole slot.
WholeSlots(b) == SubSeq(b, 1, 272 + 48 * Cardinality(FullSlots(b)))

\* C23: parse3dp scans exactly floor((length - 0x110) / 48) slots from offset
\* 0x110, the slot of every iteration lies wholly inside the buffer, and the
\* workout returned is the workout of the buffer without the bytes after its
\* last whole slot.
C23_WholeSlotsOnly ==
    /\ pc = "scan" =>
          /\ 48 * loc.totalSlots <= Len(bytes) - 272
          /\ 48 * (loc.totalSlots + 1) > Len(bytes) - 272
          /\ loc.i <= loc.totalSlots
    /\ InLoop => 272 + 48 * loc.i + 48 <= Len(bytes)
    /\ Terminated /\ Len(bytes) >= 320 =>
          48 * loc.i <= Len(bytes) - 272 /\ 48 * (loc.i + 1) > Len(bytes) - 272
    /\ Returned =>
          [trackpoints |-> trackpoints, stats |-> stats] = Workout(WholeSlots(bytes))

\* A workout returned from a file whose 47 trailing bytes carry the signature
\* and the fields of a record.
C23_Witness ==
    /\ Returned
    /\ Len(bytes) = 272 + 48 + 47
    /\ SubSeq(bytes, 272 + 48 + 2, 272 + 48 + 4) = <<0, 1, 0>>
    /\ stats.recordCount = 1

\* The first slot that carries the signature.
FirstMatching(b) ==
    LET ms == {k \in FullSlots(b) : SigMatches(b, k)}
    IN  CHOOSE k \in ms : \A j \in ms : k <= j

\* C24: the first record that carries the signature is accepted whatever its
\* timestamp, so the no-valid-data error is raised iff no scanned slot
\* carries the signature.
C24_FirstRecordAccepted ==
    /\ (pc \in {"scan", "done"} /\ ~NoSignature(bytes)
                                /\ loc.i > FirstMatching(bytes)) =>
          /\ loc.validCount >= 1
          /\ MapHas(loc.wattsBySecond, TsAt(bytes, FirstMatching(bytes)) \div 1000)
    /\ (Terminated /\ Len(bytes) >= 320) =>
          (Threw(ERR_NO_DATA) <=> NoSignature(bytes))
    /\ (Returned /\ ~NoSignature(bytes)) =>
          \E p \in TpIndex :
              trackpoints[p].sec = TsAt(bytes, FirstMatching(bytes)) \div 1000

\* A file whose first record has the timestamp 1100000000 of a corrupt
\* sentinel: it is accepted and is the only trackpoint.
C24_Witness ==
    /\ Returned
    /\ TsAt(bytes, FirstMatching(bytes)) = 1100000000
    /\ stats.recordCount = 1
    /\ trackpoints[1].sec = 1100000

\* C25 as stated: durationSec is at least the sec of every trackpoint and is
\* the sec of the last one.
C25_DurationIsLastTrackpoint ==
    Returned =>
        /\ \A p \in TpIndex : stats.durationSec >= trackpoints[p].sec
        /\ stats.durationSec = trackpoints[Len(trackpoints)].sec

\* The timestamps of the accepted records never go down in file order.
TimestampsAscend(b) ==
    LET acc == AcceptedSeq(b)
    IN  \A j \in 1..(Len(acc) - 1) : TsAt(b, acc[j]) <= TsAt(b, acc[j + 1])

\* C25 (amended): durationSec is the sec of one of the trackpoints; it is the
\* sec of the last trackpoint, hence at least every sec, when the timestamps
\* of the accepted records never go down in file order.
C25_DurationIsSomeTrackpoint ==
    Returned =>
        /\ \E p \in TpIndex : stats.durationSec = trackpoints[p].sec
        /\ TimestampsAscend(bytes) =>
              /\ \A p \in TpIndex : stats.durationSec >= trackpoints[p].sec
              /\ stats.durationSec = trackpoints[Len(trackpoints)].sec

\* Ascending timestamps over several seconds, the last record being
\* accepted into the last trackpoint.
C25_Witness ==
    /\ Returned
    /\ TimestampsAscend(bytes)
    /\ Len(trackpoints) >= 3
    /\ stats.durationSec = trackpoints[Len(trackpoints)].sec
    /\ stats.durationSec > trackpoints[1].sec

\* The step accepts a record after an earlier accepted record.
AcceptsNext ==
    /\ InLoop
    /\ loc.validCount >= 1
    /\ loc'.validCount = loc.validCount + 1

\* C26 as stated: a record accepted after another has a timestamp that is not
\* lower than that of the previously accepted record.
C26_AcceptedTimestampsAscend ==
    [][AcceptsNext => loc'.prevMs >= loc.prevMs]_vars

\* C26 (amended): a record that carries the signature and follows an
\* accepted record is accepted iff its timestamp is at most 5000 ms above
\* that of the previously accepted record; a lower timestamp is accepted.
C26_AcceptedWithinGap ==
    [][(InLoop /\ loc.validCount >= 1 /\ SigMatches(bytes, loc.i)) =>
          IF TsAt(bytes, loc.i) <= loc.prevMs + 5000
          THEN /\ loc'.validCount = loc.validCount + 1
               /\ loc'.prevMs = TsAt(bytes, loc.i)
               /\ loc'.lastValidMs = TsAt(bytes, loc.i)
          ELSE /\ loc'.validCount = loc.validCount
               /\ loc'.prevMs = loc.prevMs
               /\ loc'.lastValidMs = loc.lastValidMs]_vars

\* A record was just accepted whose timestamp is below that of the record
\* accepted before it.
C26_Witness ==
    /\ pc = "scan"
    /\ loc.i >= 2
    /\ loc.validCount = loc.i
    /\ loc.prevMs = TsAt(bytes, loc.i - 1)
    /\ TsAt(bytes, loc.i - 1) < TsAt(bytes, loc.i - 2)

\* The keys of a map, as a set.
KeySet(m) == {m[j].k : j \in 1..Len(m)}

\* The bucket lengths of a map, one per key.
BucketLengths(m) == [j \in 1..Len(m) |-> Len(m[j].v)]

\* C27: from the first iteration to the end of the scan the power, cadence
\* and heart-rate maps have the same keys, no bucket is empty, the three
\* buckets of a key have the same length, and the bucket lengths sum to the
\* number of accepted records, which is stats.recordCount.
C27_BucketsConsistent ==
    /\ pc \in {"scan", "done"} =>
          /\ KeySet(loc.cadenceBySecond) = KeySet(loc.wattsBySecond)
          /\ KeySet(loc.hrBySecond) = KeySet(loc.wattsBySecond)
          /\ Cardinality(KeySet(loc.wattsBySecond)) = Len(loc.wattsBySecond)
          /\ \A sec \in KeySet(loc.wattsBySecond) :
                /\ Len(MapGet(loc.wattsBySecond, sec)) >= 1
                /\ Len(MapGet(loc.cadenceBySecond, sec))
                      = Len(MapGet(loc.wattsBySecond, sec))
                /\ Len(MapGet(loc.hrBySecond, sec))
                      = Len(MapGet(loc.wattsBySecond, sec))
          /\ SumSeq(BucketLengths(loc.wattsBySecond)) = loc.validCount
          /\ loc.validCount = Len(AcceptedUpTo(bytes, loc.i))
    /\ Returned =>
          /\ stats.recordCount = loc.validCount
          /\ stats.recordCount = Len(AcceptedSeq(bytes))

\* The end of a scan with a bucket of two records, a second bucket and a
\* record that was rejected.
C27_Witness ==
    /\ Returned
    /\ Len(loc.wattsBySecond) >= 2
    /\ \E sec \in KeySet(loc.wattsBySecond) : Len(MapGet(loc.wattsBySecond, sec)) >= 2
    /\ RejectedSet(bytes) # {}

\* C28: every trackpoint's watts is a byte value, every cadence and heart
\* rate that is present lies in 1..255, and 0 <= avgWatts <= maxWatts <= 255
\* with maxWatts the largest watts of the trackpoints.
C28_ValueRanges ==
    Returned =>
        /\ \A p \in TpIndex :
              /\ trackpoints[p].watts \in 0..255
              /\ trackpoints[p].cadence # Null => trackpoints[p].cadence \in 1..255
              /\ trackpoints[p].hr # Null => trackpoints[p].hr \in 1..255
        /\ 0 <= stats.avgWatts
        /\ stats.avgWatts <= stats.maxWatts
        /\ stats.maxWatts <= 255
        /\ \E p \in TpIndex : trackpoints[p].watts = stats.maxWatts
        /\ \A p \in TpIndex : trackpoints[p].watts <= stats.maxWatts

\* A workout whose largest power is the byte 255, in a second with another
\* reading, next to a trackpoint of zero power.
C28_Witness ==
    /\ Returned
    /\ \E k \in AcceptedSet(bytes) :
          /\ At(bytes, OffsetOf(k) + 4) = 255
          /\ Len(BucketBytes(bytes, TsAt(bytes, k) \div 1000, 4)) >= 2
    /\ \E p \in TpIndex : trackpoints[p].watts = 0
    /\ stats.maxWatts > 0
    /\ stats.avgWatts = stats.maxWatts

\* ---------------------------------------------------------------------------
\* The page: the handlers of app.js, each one step.  reader.onload runs
\* parse3dp and buildTcx to their end within its step.

\* The files the user can hand to the page.
RideFile == [name |-> RIDE_NAME, bytes |-> ExampleBuffer]

OtherFile ==
    [name  |-> [stem |-> "Other", ext |-> ".3DP"],
     bytes |-> Header \o Rec(101, 550, 80, F32_ONE, 50)
                      \o Rec(0, 1100, 0, F32_TWO, 120)]

ShortFile == [name |-> [stem |-> "short", ext |-> ".3dp"], bytes |-> SubSeq(Header, 1, 16)]

FooterFile ==
    [name  |-> [stem |-> "footer", ext |-> ".3dp"],
     bytes |-> Header \o MkSlot(80, <<0, 1, 1>>, 200, 550, 80, F32_TWO, 120)]

NotesFile == [name |-> [stem |-> "notes", ext |-> ".txt"], bytes |-> <<>>]

Files == {RideFile, OtherFile, ShortFile, FooterFile, NotesFile}

\* The start instants of the picker, which holds whole minutes: an ordinary
\* one and the last instant of the range of Date.
PickerInstants == {DateOf(20762, 18000, 0), DateOf(MAX_DAY, 0, 0)}

\* The page after loading: no file, nothing shown, the button ready.
UIInit ==
    /\ bytes = <<>>
    /\ pc = "start"
    /\ loc = InitLocals(<<>>)
    /\ trackpoints = <<>>
    /\ stats = NoStats
    /\ athleteName = <<>>
    /\ error = ""
    /\ startTime = NotPicked
    /\ tcx = NoTcx
    /\ tcxError = ""
    /\ errorMsg = <<>>
    /\ section = "none"
    /\ currentFile = NoFile
    /\ currentOutput = NoOutput
    /\ convertBtn = BtnReady
    /\ reader = NoReader
    /\ uncaught = ""

\* handleFile with a .3dp file: it becomes the current file.
HandleFile ==
    /\ \E f \in Files :
          /\ Is3dpName(f.name)
          /\ currentFile' = f
    /\ section' = "optionsSection"
    /\ UNCHANGED <<bytes, pc, loc, trackpoints, stats, athleteName, error, startTime,
                   tcx, tcxError, errorMsg, currentOutput, convertBtn, reader, uncaught>>

\* handleFile with another file: an error is shown, the current file stays.
HandleFileRejects ==
    /\ \E f \in Files :
          /\ ~Is3dpName(f.name)
          /\ errorMsg' = NotA3dpText(f.name)
    /\ section' = "errorSection"
    /\ UNCHANGED <<bytes, pc, loc, trackpoints, stats, athleteName, error, startTime,
                   tcx, tcxError, currentFile, currentOutput, convertBtn, reader,
                   uncaught>>

\* reset(), from the button of the result section or of the error section.
Reset ==
    /\ section \in {"resultSection", "errorSection"}
    /\ currentFile' = NoFile
    /\ trackpoints' = <<>>
    /\ stats' = NoStats
    /\ athleteName' = <<>>
    /\ currentOutput' = NoOutput
    /\ section' = "none"
    /\ UNCHANGED <<bytes, pc, loc, error, startTime, tcx, tcxError, errorMsg,
                   convertBtn, reader, uncaught>>

\* A click on Convert with a file loaded: the button is disabled and the read
\* of the current file starts.  A disabled button takes no click; the button
\* is taken to stand in the options section, hence to be hidden with it.
ClickConvert ==
    /\ ~convertBtn.disabled
    /\ section = "optionsSection"
    /\ currentFile # NoFile
    /\ convertBtn' = BtnBusy
    /\ reader' = [loading |-> TRUE, file |-> currentFile]
    /\ UNCHANGED <<bytes, pc, loc, trackpoints, stats, athleteName, error, startTime,
                   tcx, tcxError, errorMsg, section, currentFile, currentOutput,
                   uncaught>>

\* reader.onerror
ReaderError ==
    /\ reader.loading
    /\ reader' = [reader EXCEPT !.loading = FALSE]
    /\ convertBtn' = BtnReady
    /\ errorMsg' = READ_ERROR_TEXT
    /\ section' = "errorSection"
    /\ UNCHANGED <<bytes, pc, loc, trackpoints, stats, athleteName, error, startTime,
                   tcx, tcxError, currentFile, currentOutput, uncaught>>

\* reader.onload, parse3dp raises: the catch block.
LoadParseError ==
    /\ reader.loading
    /\ LET w == parse3dp(reader.file.bytes)
       IN  /\ w.threw
           /\ error' = w.message
           /\ errorMsg' = ParseErrorText(w.message)
    /\ bytes' = reader.file.bytes
    /\ reader' = [reader EXCEPT !.loading = FALSE]
    /\ convertBtn' = BtnReady
    /\ section' = "errorSection"
    /\ UNCHANGED <<pc, loc, trackpoints, stats, athleteName, startTime, tcx, tcxError,
                   currentFile, currentOutput, uncaught>>

\* reader.onload, buildTcx raises: nothing catches it and the handler ends.
LoadBuildThrows ==
    /\ reader.loading
    /\ LET w == parse3dp(reader.file.bytes)
       IN  /\ ~w.threw
           /\ \E s \in PickerInstants :
                 /\ buildTcxThrows(w.trackpoints, s)
                 /\ startTime' = s
           /\ trackpoints' = w.trackpoints
           /\ stats' = w.stats
           /\ athleteName' = w.athleteName
    /\ bytes' = reader.file.bytes
    /\ reader' = [reader EXCEPT !.loading = FALSE]
    /\ tcxError' = RANGE_ERROR
    /\ uncaught' = RANGE_ERROR
    /\ UNCHANGED <<pc, loc, error, tcx, errorMsg, section, currentFile, currentOutput,
                   convertBtn>>

\* reader.onload, currentFile is null by now: currentFile.name raises a
\* TypeError that nothing catches.
LoadNoCurrentFile ==
    /\ reader.loading
    /\ currentFile = NoFile
    /\ LET w == parse3dp(reader.file.bytes)
       IN  /\ ~w.threw
           /\ \E s \in PickerInstants :
                 /\ ~buildTcxThrows(w.trackpoints, s)
                 /\ startTime' = s
                 /\ tcx' = buildTcx(w.trackpoints, w.stats, s)
           /\ trackpoints' = w.trackpoints
           /\ stats' = w.stats
           /\ athleteName' = w.athleteName
    /\ bytes' = reader.file.bytes
    /\ reader' = [reader EXCEPT !.loading = FALSE]
    /\ uncaught' = TYPE_ERROR
    /\ UNCHANGED <<pc, loc, error, tcxError, errorMsg, section, currentFile,
                   currentOutput, convertBtn>>

\* reader.onload to its end: the output is stored under the name of the
\* current file, the button is ready again and the result is shown.
LoadSucceeds ==
    /\ reader.loading
    /\ currentFile # NoFile
    /\ LET w == parse3dp(reader.file.bytes)
       IN  /\ ~w.threw
           /\ \E s \in PickerInstants :
                 /\ ~buildTcxThrows(w.trackpoints, s)
                 /\ startTime' = s
                 /\ tcx' = buildTcx(w.trackpoints, w.stats, s)
           /\ trackpoints' = w.trackpoints
           /\ stats' = w.stats
           /\ athleteName' = w.athleteName
    /\ currentOutput' = OutputOf(tcx', currentFile, reader.file)
    /\ bytes' = reader.file.bytes
    /\ reader' = [reader EXCEPT !.loading = FALSE]
    /\ convertBtn' = BtnReady
    /\ section' = "resultSection"
    /\ UNCHANGED <<pc, loc, error, tcxError, errorMsg, currentFile, uncaught>>

\* The read ends: the browser fires load or error.
ReaderDone ==
    \/ ReaderError
    \/ LoadParseError
    \/ LoadBuildThrows
    \/ LoadNoCurrentFile
    \/ LoadSucceeds

UINext ==
    \/ HandleFile
    \/ HandleFileRejects
    \/ Reset
    \/ ClickConvert
    \/ ReaderDone

\* A read that was started ends: the FileReader fires load or error.
UISpec == UIInit /\ [][UINext]_vars /\ WF_vars(ReaderDone)

\* C29: after a click on Convert with a file loaded the button is eventually
\* enabled again with its label 'Convert', whatever happens in between.
C29_ButtonEventuallyReady == reader.loading ~> (convertBtn = BtnReady)

\* C30: the stored output bears the name derived from the file whose bytes
\* were read and converted.
C30_OutputNamedAfterItsFile ==
    currentOutput # NoOutput =>
        currentOutput.filename = TcxName(currentOutput.source.name)

=============================================================================
